---- MODULE Spec2Model ----
(***************************************************************************)
(* State-machine model of lib/ChromeEnvironment.js: the waiter registry    *)
(* (waitForPage / waitForQuery and the puppeteer event handlers that       *)
(* settle them), the proxy pool (_rotateProxy, _removeUnavailableProxy,    *)
(* the proxy error log), the redirect chain and the proxy indicators of    *)
(* the response handlers, and the session (prepare, tearDown).             *)
(***************************************************************************)
EXTENDS Integers, Sequences, FiniteSets, TLC

VARIABLES
  _url,                 \* this._url, the tracked navigation url
  _proxy,               \* this._proxy: null, one candidate, or a list
  _proxyCurrent,        \* this._proxyCurrent
  _proxyErrors,         \* this._proxyErrors
  _proxyIndicators,     \* this._proxyIndicators
  _redirectUrls,        \* this._redirectUrls, the redirect chain
  proxyRotator,         \* typeof this._options.proxyRotator === 'function'
  _navigationActions,   \* this._navigationActions (callbacks, by waiter id)
  _requestingActions,   \* this._requestingActions ({pattern, fn}, by waiter id)
  waiters,              \* per waiter: its promise, its timer, its callback
  nextId,               \* id of the next waiter to be registered
  events,               \* number of driver events delivered so far
  navCut,               \* nextId at the moment of the last navigation timeout
  rotations,            \* number of completed _rotateProxy() calls
  refills,              \* number of setProxy() calls
  configured,           \* the value of options.proxy given to the constructor
  _browser,             \* this._browser
  _page,                \* this._page
  pc,                   \* the await prepare() is suspended at, "idle" if none
  steps,                \* the steps the current prepare() has performed
  outcome,              \* how the last prepare() settled, and with what error
  closes,               \* close() calls made on the driver's page and browser
  cycles,               \* number of prepare() calls so far
  lastOp                \* the operation that produced this state, and its result

vars == << _url, _redirectUrls, _proxy, _proxyCurrent, _proxyErrors, _proxyIndicators,
           proxyRotator, _navigationActions, _requestingActions, waiters,
           nextId, events, navCut, rotations, refills, configured, _browser,
           _page, pc, steps, outcome, closes, cycles, lastOp >>

proxyVars == << _proxy, _proxyCurrent, proxyRotator, rotations, refills,
               configured >>
sessionVars == << _browser, _page, pc, steps, outcome, closes, cycles >>
waiterVars == << _navigationActions, _requestingActions, waiters, nextId,
                 events, navCut >>

(***************************************************************************)
(* Bounds of the model.                                                    *)
(***************************************************************************)
MaxWaiters == 3
MaxEvents == 3
MaxPool == 2
MaxRotations == 4
MaxErrors == 2
MaxRefills == 1
MaxCycles == 2

(***************************************************************************)
(* Urls are short character sequences; a pattern given to String.match is  *)
(* compiled to a regular expression, which for a literal pattern is a      *)
(* substring search.                                                       *)
(***************************************************************************)
Urls == { <<"a">>, <<"b">>, <<"a", "b">> }
Patterns == { <<"a">>, <<"b">> }

match(url, pattern) ==
  \E i \in 1..(Len(url) + 1) :
     /\ i + Len(pattern) - 1 <= Len(url)
     /\ SubSeq(url, i, i + Len(pattern) - 1) = pattern

(***************************************************************************)
(* Waiters.  A waiter is the promise created by waitForPage/waitForQuery   *)
(* together with its setTimeout timer and its callback.                    *)
(***************************************************************************)
WaiterIds == 1..MaxWaiters

NoWaiter == [kind |-> "none", pattern |-> <<>>, state |-> "unregistered",
             result |-> <<>>, error |-> "", timer |-> "none", calls |-> 0,
             timerRuns |-> 0]

TimeoutPage == "Page navigation timeout"
TimeoutQuery == "Waiting request timeout"
NotLoaded == "Page is not loaded"

\* javascript values held by _proxy and _proxyCurrent
Null == [t |-> "null"]
Undefined == [t |-> "undefined"]
Candidate(p) == [t |-> "proxy", v |-> p]
List(l) == [t |-> "array", v |-> l]
PromiseOf(x) == [t |-> "promise", v |-> x]

\* no error: the value of a rejection that did not happen
NoError == [msg |-> "", proxyIndicator |-> "", proxyLevel |-> ""]

NoOp == [op |-> "init", w |-> 0, url |-> <<>>, called |-> <<>>,
         ret |-> Undefined, threw |-> FALSE, err |-> NoError,
         status |-> 0, location |-> <<>>, again |-> FALSE]

\* the browser puppeteer.launch() resolves with; `process` tells whether
\* browser.process() is truthy
Browser(process) == [t |-> "browser", process |-> process]

\* the page browser.newPage() resolves with; `on` tells whether the event
\* handlers are subscribed, `goto` whether a navigation was issued on it
Page(on, goto) == [t |-> "page", on |-> on, goto |-> goto]

NoOutcome == [state |-> "none", err |-> NoError]

\* the steps of prepare(), in the order of its awaits
PrepareSteps ==
  << "_rotateProxy", "launch", "newPage", "setViewport", "setUserAgent",
     "setDefaultNavigationTimeout", "_handlePuppeteerEvents", "goto",
     "loaded", "_validateProxy", "_injectFiles" >>

\* the session fields after the constructor
Constructed ==
  /\ _browser = Null
  /\ _page = Null
  /\ pc = "idle"
  /\ steps = << >>
  /\ outcome = NoOutcome
  /\ closes = [page |-> 0, browser |-> 0]
  /\ cycles = 0

\* the session fields after a first prepare() that resolved
Prepared ==
  /\ _browser = Browser(TRUE)
  /\ _page = Page(TRUE, TRUE)
  /\ pc = "idle"
  /\ steps = PrepareSteps
  /\ outcome = [state |-> "resolved", err |-> NoError]
  /\ closes = [page |-> 0, browser |-> 0]
  /\ cycles = 1

\* the driver delivers events to the handlers of a page that has them
\* subscribed and was navigated
Listening == _page.t = "page" /\ _page.on /\ _page.goto

\* resolve(value) of a promise: takes effect only while the promise is pending
resolve(wt, value) ==
  IF wt.state = "pending"
    THEN [wt EXCEPT !.state = "resolved", !.result = value]
    ELSE wt

\* reject(err) of a promise: takes effect only while the promise is pending
reject(wt, err) ==
  IF wt.state = "pending"
    THEN [wt EXCEPT !.state = "rejected", !.error = err]
    ELSE wt

\* clearTimeout(timeoutId): cancels a timer that has not fired yet
clearTimeout(wt) ==
  IF wt.timer = "armed" THEN [wt EXCEPT !.timer = "cleared"] ELSE wt

\* the callback waitForPage pushes onto _navigationActions
navigationCallback(wt, err) ==
  LET cleared == clearTimeout(wt)
      called == [cleared EXCEPT !.calls = @ + 1]
  IN  IF err # "" THEN reject(called, err) ELSE resolve(called, <<>>)

\* requestingFn without its clearTimeout(timeoutId)
requestingFn_noClearTimeout(wt, err, result) ==
  LET called == [wt EXCEPT !.calls = @ + 1]
  IN  IF err # "" THEN reject(called, err) ELSE resolve(called, result)

\* a fn that cancels the timer and settles nothing
requestingFn_clearOnly(wt, err, result) ==
  [clearTimeout(wt) EXCEPT !.calls = @ + 1]

\* the fn of the {pattern, fn} entry waitForQuery pushes onto _requestingActions
requestingFn(wt, err, result) ==
  LET cleared == clearTimeout(wt)
      called == [cleared EXCEPT !.calls = @ + 1]
  IN  IF err # "" THEN reject(called, err) ELSE resolve(called, result)

\* Array.prototype.filter(x => x !== w)
without(actions, w) == SelectSeq(actions, LAMBDA x : x # w)

\* a timer callback that removes only its own callback from the queue
navigationActionsOnTimeout_removeOwn(actions, w) == without(actions, w)

\* a timer callback that leaves the queue alone
navigationActionsOnTimeout_keep(actions, w) == actions

\* what the timer callback of waitForPage assigns to this._navigationActions
navigationActionsOnTimeout(actions, w) == << >>

\* what the timer callback of waitForQuery assigns to this._requestingActions
requestingActionsOnTimeout(actions, w) == << >>

\* actions.forEach(callback => callback(err)) over waiter ids
RECURSIVE forEachCallback(_, _, _)
forEachCallback(actions, ws, err) ==
  IF actions = << >> THEN ws
  ELSE forEachCallback(Tail(actions),
                       [ws EXCEPT ![Head(actions)] = navigationCallback(@, err)],
                       err)

\* load handler that iterates a copy (slice) and leaves the queue filled
loadHandler_slice(actions, ws) ==
  [actions |-> actions,
   called  |-> actions,
   waiters |-> forEachCallback(actions, ws, "")]

\* page.on('load'): this._navigationActions.splice(0).forEach(cb => cb())
loadHandler(actions, ws) ==
  [actions |-> << >>,
   called  |-> actions,
   waiters |-> forEachCallback(actions, ws, "")]

\* the while loop of page.on('request'); i is the 1-based scan position
RECURSIVE requestLoop(_, _, _, _, _)
requestLoop(actions, i, ws, url, called) ==
  IF i > Len(actions)
    THEN [actions |-> actions, called |-> called, waiters |-> ws]
    ELSE LET action == actions[i]
         IN  IF match(url, ws[action].pattern)
               THEN \* actions.shift(); action.fn(null, url)
                    requestLoop(Tail(actions), i,
                                [ws EXCEPT ![action] = requestingFn(@, "", url)],
                                url, Append(called, action))
               ELSE requestLoop(actions, i + 1, ws, url, called)

\* page.on('request')
requestHandler(actions, ws, url) == requestLoop(actions, 1, ws, url, << >>)

\* requestfailed handler that compares the urls with String.match
requestfailedNavigation_match(actions, ws, url, trackedUrl) ==
  IF match(url, trackedUrl)
    THEN [actions |-> << >>,
          called  |-> actions,
          waiters |-> forEachCallback(actions, ws, NotLoaded)]
    ELSE [actions |-> actions, called |-> << >>, waiters |-> ws]

\* the navigation part of page.on('requestfailed')
requestfailedNavigation(actions, ws, url, trackedUrl) ==
  IF url = trackedUrl
    THEN [actions |-> << >>,
          called  |-> actions,
          waiters |-> forEachCallback(actions, ws, NotLoaded)]
    ELSE [actions |-> actions, called |-> << >>, waiters |-> ws]

(***************************************************************************)
(* Proxy indicators and proxy errors.                                      *)
(***************************************************************************)
Statuses == { 200, 503 }

\* a javascript number, and the method object a property access yields
Number(n) == [t |-> "number", v |-> n]
Method(name) == [t |-> "function", v |-> 0]

Indicator503 == [type |-> "responseCode", level |-> "high", code |-> 503,
                 url |-> << >>]
Indicator200 == [type |-> "responseCode", level |-> "", code |-> 200,
                 url |-> << >>]
IndicatorRedirect == [type |-> "redirect", level |-> "low", code |-> 0,
                      url |-> <<"b">>]
IndicatorCaptcha == [type |-> "captcha", level |-> "", code |-> 0,
                     url |-> << >>]

RECURSIVE SelectSeq2(_, _)
\* Array.prototype.filter with a predicate given as a set of accepted items
SelectSeq2(s, accepted) ==
  IF s = << >> THEN << >>
  ELSE IF Head(s) \in accepted
         THEN << Head(s) >> \o SelectSeq2(Tail(s), accepted)
         ELSE SelectSeq2(Tail(s), accepted)

getProxyIndicators(indicators, type) ==
  SelectSeq2(indicators, { it \in { indicators[k] : k \in DOMAIN indicators } :
                              it.type = type })

\* createProxyError for the three supported types
createProxyError(proxyIndicator) ==
  [msg |-> CASE proxyIndicator.type = "redirect" -> "Proxy matched redirect"
             [] proxyIndicator.type = "responseCode" -> "Proxy matched response code"
             [] proxyIndicator.type = "captcha" -> "Captcha handled"
             [] OTHER -> "Unsupported proxyIndicator",
   proxyIndicator |-> proxyIndicator.type,
   proxyLevel |-> IF proxyIndicator.level # "" THEN proxyIndicator.level
                  ELSE "medium"]

\* addProxyError
addProxyError(errors, error) == Append(errors, error)

\* the value of the expression `response.status` in page.on('requestfailed'):
\* puppeteer's Response exposes status as a method, and the handler does not
\* call it
responseStatusMember(response) == Method("status")

\* Array.prototype.find: the first item accepted, or none
find(s, accepted) ==
  LET hits == SelectSeq2(s, accepted)
  IN  IF hits = << >> THEN << >> ELSE << Head(hits) >>

\* the indicator part of page.on('requestfailed')
requestfailedIndicators(errors, indicators, response) ==
  IF response.present
    THEN LET candidates == getProxyIndicators(indicators, "responseCode")
             matched == find(candidates,
                             { it \in { candidates[k] : k \in DOMAIN candidates } :
                                 Number(it.code) = responseStatusMember(response) })
         IN  IF matched # << >>
               THEN addProxyError(errors, createProxyError(matched[1]))
               ELSE errors
    ELSE errors

Responses ==
  { [present |-> FALSE, status |-> 0] } \cup
  { [present |-> TRUE, status |-> s] : s \in Statuses }

(***************************************************************************)
(* Operations of the waiter registry.                                      *)
(***************************************************************************)
waitForPage ==
  /\ nextId <= MaxWaiters
  /\ waiters' = [waiters EXCEPT ![nextId] =
                   [NoWaiter EXCEPT !.kind = "nav", !.state = "pending",
                                    !.timer = "armed"]]
  /\ _navigationActions' = Append(_navigationActions, nextId)
  /\ nextId' = nextId + 1
  /\ lastOp' = [NoOp EXCEPT !.op = "waitForPage", !.w = nextId]
  /\ UNCHANGED << sessionVars, _url, _redirectUrls, _proxyErrors, _proxyIndicators, proxyVars,
                  _requestingActions, events, navCut >>

waitForQuery(uri) ==
  /\ nextId <= MaxWaiters
  /\ waiters' = [waiters EXCEPT ![nextId] =
                   [NoWaiter EXCEPT !.kind = "req", !.pattern = uri,
                                    !.state = "pending", !.timer = "armed"]]
  /\ _requestingActions' = Append(_requestingActions, nextId)
  /\ nextId' = nextId + 1
  /\ lastOp' = [NoOp EXCEPT !.op = "waitForQuery", !.w = nextId]
  /\ UNCHANGED << sessionVars, _url, _redirectUrls, _proxyErrors, _proxyIndicators, proxyVars,
                  _navigationActions, events, navCut >>

\* the setTimeout callback of waitForPage
navigationTimeout(w) ==
  /\ waiters[w].kind = "nav"
  /\ waiters[w].timer = "armed"
  /\ _navigationActions' = navigationActionsOnTimeout(_navigationActions, w)
  /\ waiters' = [waiters EXCEPT ![w] =
                   reject([@ EXCEPT !.timer = "fired", !.timerRuns = @ + 1],
                          TimeoutPage)]
  /\ navCut' = nextId
  /\ lastOp' = [NoOp EXCEPT !.op = "navigationTimeout", !.w = w]
  /\ UNCHANGED << sessionVars, _url, _redirectUrls, _proxyErrors, _proxyIndicators, proxyVars,
                  _requestingActions, nextId, events >>

\* the setTimeout callback of waitForQuery
requestTimeout(w) ==
  /\ waiters[w].kind = "req"
  /\ waiters[w].timer = "armed"
  /\ _requestingActions' = requestingActionsOnTimeout(_requestingActions, w)
  /\ waiters' = [waiters EXCEPT ![w] =
                   reject([@ EXCEPT !.timer = "fired", !.timerRuns = @ + 1],
                          TimeoutQuery)]
  /\ lastOp' = [NoOp EXCEPT !.op = "requestTimeout", !.w = w]
  /\ UNCHANGED << sessionVars, _url, _redirectUrls, _proxyErrors, _proxyIndicators, proxyVars,
                  _navigationActions, nextId, events, navCut >>

\* page.on('load')
load ==
  /\ events < MaxEvents
  /\ LET r == loadHandler(_navigationActions, waiters)
     IN  /\ _navigationActions' = r.actions
         /\ waiters' = r.waiters
         /\ lastOp' = [NoOp EXCEPT !.op = "load", !.called = r.called]
  /\ events' = events + 1
  /\ UNCHANGED << sessionVars, _url, _redirectUrls, _proxyErrors, _proxyIndicators, proxyVars,
                  _requestingActions, nextId, navCut >>

\* page.on('request')
request(url) ==
  /\ events < MaxEvents
  /\ LET r == requestHandler(_requestingActions, waiters, url)
     IN  /\ _requestingActions' = r.actions
         /\ waiters' = r.waiters
         /\ lastOp' = [NoOp EXCEPT !.op = "request", !.url = url,
                                   !.called = r.called]
  /\ events' = events + 1
  /\ UNCHANGED << sessionVars, _url, _redirectUrls, _proxyErrors, _proxyIndicators, proxyVars,
                  _navigationActions, nextId, navCut >>

\* page.on('requestfailed')
requestfailed(url, response) ==
  /\ events < MaxEvents
  /\ _proxyErrors' = requestfailedIndicators(_proxyErrors, _proxyIndicators,
                                             response)
  /\ LET r == requestfailedNavigation(_navigationActions, waiters, url, _url)
     IN  /\ _navigationActions' = r.actions
         /\ waiters' = r.waiters
         /\ lastOp' = [NoOp EXCEPT !.op = "requestfailed", !.url = url,
                                   !.called = r.called]
  /\ events' = events + 1
  /\ UNCHANGED << sessionVars, _url, _redirectUrls, _proxyIndicators, proxyVars, _requestingActions,
                  nextId, navCut >>

InitWaiters ==
  /\ _url = <<"a">>
  /\ _proxy = Null
  /\ _proxyCurrent = Null
  /\ _proxyErrors = << >>
  /\ _redirectUrls = << >>
  /\ _proxyIndicators = << Indicator503, IndicatorRedirect >>
  /\ proxyRotator = FALSE
  /\ _navigationActions = << >>
  /\ _requestingActions = << >>
  /\ waiters = [w \in WaiterIds |-> NoWaiter]
  /\ nextId = 1
  /\ events = 0
  /\ navCut = 1
  /\ rotations = 0
  /\ refills = 0
  /\ configured = Null
  /\ Prepared
  /\ lastOp = NoOp

NextWaiters ==
  \/ waitForPage
  \/ \E uri \in Patterns : waitForQuery(uri)
  \/ \E w \in WaiterIds : navigationTimeout(w)
  \/ \E w \in WaiterIds : requestTimeout(w)
  \/ load
  \/ \E url \in Urls : request(url)
  \/ \E url \in Urls, response \in Responses : requestfailed(url, response)

SpecWaiters == InitWaiters /\ [][NextWaiters]_vars

\* every timer that is armed eventually runs its setTimeout callback, unless
\* clearTimeout cancels it first
TimersFire ==
  \A w \in WaiterIds :
    WF_vars(navigationTimeout(w)) /\ WF_vars(requestTimeout(w))

SpecWaitersFair == SpecWaiters /\ TimersFire

(***************************************************************************)
(* The proxy pool.                                                         *)
(***************************************************************************)
Proxies == { [host |-> "1.1.1.1", port |-> 80],
             [host |-> "2.2.2.2", port |-> 81],
             [host |-> "1.1.1.1", port |-> 81] }

RECURSIVE SeqsUpTo(_, _)
SeqsUpTo(S, n) ==
  IF n = 0 THEN { << >> }
  ELSE LET shorter == SeqsUpTo(S, n - 1)
       IN  shorter \cup { Append(q, x) : q \in shorter, x \in S }

\* the values the `proxy` option takes: none, one candidate, a list
ProxyOptions ==
  { Null } \cup { Candidate(p) : p \in Proxies }
           \cup { List(l) : l \in SeqsUpTo(Proxies, MaxPool) }

\* the values setProxy is called with
SetProxyInputs ==
  { Null, List(<< >>),
    Candidate([host |-> "1.1.1.1", port |-> 80]),
    List(<< [host |-> "2.2.2.2", port |-> 81],
            [host |-> "1.1.1.1", port |-> 80] >>) }

\* the value `await x` yields
await(x) == IF x.t = "promise" THEN x.v ELSE x

\* lodash.sample: any element of the array, undefined for an empty one
sample(list) ==
  IF list = << >> THEN { Undefined }
  ELSE { Candidate(list[i]) : i \in DOMAIN list }

\* a proxyRotator(proxyList, currentProxy) that returns a member of the list
\* it is given, and undefined when the list has no member
rotatorChoices(list, currentProxy) ==
  IF list = << >> THEN { Undefined }
  ELSE { Candidate(list[i]) : i \in DOMAIN list }

\* this._proxy.findIndex(item => item.host === current.host &&
\*                               item.port === current.port);
\* 0 stands for -1.  A member access on undefined throws; on an object that
\* is no candidate (a Promise) it yields undefined, equal to no host.
findIndex(list, current) ==
  LET hits == { i \in DOMAIN list :
                  /\ current.t = "proxy"
                  /\ list[i].host = current.v.host
                  /\ list[i].port = current.v.port }
  IN  IF hits = {} THEN 0 ELSE CHOOSE i \in hits : \A j \in hits : i <= j

\* _removeUnavailableProxy: the list after the call, and whether it threw
_removeUnavailableProxy(proxy, current) ==
  IF proxy.t # "array" \/ proxy.v = << >> \/ current = Null
    THEN [proxy |-> proxy, threw |-> FALSE]
    ELSE IF current.t = "undefined"
           THEN [proxy |-> proxy, threw |-> TRUE]
           ELSE LET index == findIndex(proxy.v, current)
                IN  [proxy |-> IF index # 0
                                 THEN List(SubSeq(proxy.v, 1, index - 1) \o
                                           SubSeq(proxy.v, index + 1, Len(proxy.v)))
                                 ELSE proxy,
                     threw |-> FALSE]

\* the ways `foundProxy` is computed in _rotateProxy: the await applies to
\* the typeof test only, so the rotator's result is taken as returned and
\* the sampled candidate stays wrapped in its Promise
foundProxies(list, currentProxy, hasRotator) ==
  IF hasRotator
    THEN rotatorChoices(list, currentProxy)
    ELSE { PromiseOf(x) : x \in sample(list) }

\* a rotation that keeps the previous candidate when none is found
currentAfterSelection_keepIfNone(foundProxy, currentProxy) ==
  IF await(foundProxy).t = "proxy" THEN foundProxy ELSE currentProxy

\* this._proxyCurrent = foundProxy
currentAfterSelection(foundProxy, currentProxy) == foundProxy

\* a single-proxy branch that forgets to record the candidate as active
currentForSingleProxy_forgotten(proxy, currentProxy) == currentProxy

\* this._proxyCurrent = this._proxy
currentForSingleProxy(proxy, currentProxy) == proxy

\* _rotateProxy, for one computed foundProxy: the fields after the call, the
\* value the returned promise resolves with, and whether it rejected
_rotateProxy(proxy, currentProxy, errors, foundProxy) ==
  IF proxy.t = "null"
    THEN [proxy |-> proxy, current |-> currentProxy, errors |-> errors,
          ret |-> Null, threw |-> FALSE]
    ELSE IF proxy.t = "array"
      THEN LET removed == _removeUnavailableProxy(proxy, currentProxy)
           IN  IF removed.threw
                 THEN [proxy |-> proxy, current |-> currentProxy,
                       errors |-> errors, ret |-> Undefined, threw |-> TRUE]
                 ELSE LET current == currentAfterSelection(foundProxy, currentProxy)
                      IN  [proxy |-> removed.proxy, current |-> current,
                           errors |-> << >>, ret |-> await(current),
                           threw |-> FALSE]
      ELSE LET current == currentForSingleProxy(proxy, currentProxy)
           IN  [proxy |-> proxy, current |-> current, errors |-> errors,
                ret |-> await(current), threw |-> FALSE]

\* the list the selection in _rotateProxy reads: this._proxy after the removal
listAfterRemoval(proxy, currentProxy) ==
  LET removed == _removeUnavailableProxy(proxy, currentProxy)
  IN  IF removed.proxy.t = "array" THEN removed.proxy.v ELSE << >>

\* one call of _rotateProxy()
rotateProxy ==
  /\ rotations < MaxRotations
  /\ \E foundProxy \in foundProxies(listAfterRemoval(_proxy, _proxyCurrent),
                                    _proxyCurrent, proxyRotator) :
       LET r == _rotateProxy(_proxy, _proxyCurrent, _proxyErrors, foundProxy)
       IN  /\ _proxy' = r.proxy
           /\ _proxyCurrent' = r.current
           /\ _proxyErrors' = r.errors
           /\ lastOp' = [NoOp EXCEPT !.op = "_rotateProxy", !.ret = r.ret,
                                     !.threw = r.threw]
  /\ rotations' = rotations + 1
  /\ UNCHANGED << sessionVars, _url, _redirectUrls, _proxyIndicators, proxyRotator, refills, configured,
                  waiterVars >>

\* setProxy(proxy)
setProxy(proxy) ==
  /\ refills < MaxRefills
  /\ _proxy' = proxy
  /\ refills' = refills + 1
  /\ lastOp' = [NoOp EXCEPT !.op = "setProxy"]
  /\ UNCHANGED << sessionVars, _url, _redirectUrls, _proxyCurrent, _proxyErrors, _proxyIndicators,
                  proxyRotator, rotations, configured, waiterVars >>

\* the errors a caller records with addProxyError(createProxyError(...))
RecordableErrors ==
  { createProxyError(Indicator503), createProxyError(IndicatorCaptcha) }

\* addProxyError(error), called from outside the event handlers
recordProxyError(error) ==
  /\ Len(_proxyErrors) < MaxErrors
  /\ _proxyErrors' = addProxyError(_proxyErrors, error)
  /\ lastOp' = [NoOp EXCEPT !.op = "addProxyError"]
  /\ UNCHANGED << sessionVars, _url, _redirectUrls, _proxyIndicators, proxyVars, waiterVars >>

\* a validation that rejects with the oldest error (shift instead of pop)
_validateProxy_shift(errors) ==
  IF Len(errors) = 0
    THEN [errors |-> errors, rejected |-> FALSE, err |-> NoError]
    ELSE [errors |-> Tail(errors), rejected |-> TRUE, err |-> Head(errors)]

\* a validation that rejects with the last error and empties the log
_validateProxy_clear(errors) ==
  IF Len(errors) = 0
    THEN [errors |-> errors, rejected |-> FALSE, err |-> NoError]
    ELSE [errors |-> << >>, rejected |-> TRUE, err |-> errors[Len(errors)]]

\* _validateProxy: the log after the call, whether the returned promise is
\* rejected, and the error it is rejected with (getProxyErrors().pop())
_validateProxy(errors) ==
  IF Len(errors) = 0
    THEN [errors |-> errors, rejected |-> FALSE, err |-> NoError]
    ELSE [errors |-> SubSeq(errors, 1, Len(errors) - 1),
          rejected |-> TRUE,
          err |-> errors[Len(errors)]]

\* one call of _validateProxy()
validateProxy ==
  /\ LET r == _validateProxy(_proxyErrors)
     IN  /\ _proxyErrors' = r.errors
         /\ lastOp' = [NoOp EXCEPT !.op = "_validateProxy",
                                   !.threw = r.rejected, !.err = r.err,
                                   !.again = (lastOp.op = "_validateProxy")]
  /\ UNCHANGED << sessionVars, _url, _redirectUrls, _proxyIndicators,
                  proxyVars, waiterVars >>

InitProxy ==
  /\ _url = <<"a">>
  /\ configured \in ProxyOptions
  /\ _proxy = configured
  /\ _proxyCurrent = Null
  /\ _proxyErrors = << >>
  /\ _redirectUrls = << >>
  /\ _proxyIndicators = << Indicator503, IndicatorRedirect >>
  /\ proxyRotator \in BOOLEAN
  /\ _navigationActions = << >>
  /\ _requestingActions = << >>
  /\ waiters = [w \in WaiterIds |-> NoWaiter]
  /\ nextId = 1
  /\ events = 0
  /\ navCut = 1
  /\ rotations = 0
  /\ refills = 0
  /\ Constructed
  /\ lastOp = NoOp

NextProxy ==
  \/ rotateProxy
  \/ \E proxy \in SetProxyInputs : setProxy(proxy)
  \/ \E error \in RecordableErrors : recordProxyError(error)
  \/ validateProxy

SpecProxy == InitProxy /\ [][NextProxy]_vars

(***************************************************************************)
(* Redirects.  The urls of the redirect chain are written as the three     *)
(* parts url.parse distinguishes, << protocol, hostname, path >>; a        *)
(* location header may leave protocol and hostname out ("").  << >> is     *)
(* the empty string, and no location header.                               *)
(***************************************************************************)
PageUrl == << "http:", "a.com", "/x" >>
PageUrls == { PageUrl, << "http:", "a.com", "/y" >>, << "https:", "b.com", "/z" >> }
Locations == { << >>, << "", "", "/y" >>, << "https:", "b.com", "/z" >> }
ResponseStatuses == { 200, 301, 302 }

\* url.parse
parseUrl(u) == [protocol |-> u[1], hostname |-> u[2], path |-> u[3]]

\* getRedirectUrl
getRedirectUrl(currentUrl, redirectUri) ==
  LET parsedCurrentUrl == parseUrl(currentUrl)
      parsedRedirectUri == parseUrl(redirectUri)
      hostname == IF parsedRedirectUri.hostname # ""
                    THEN parsedRedirectUri.hostname
                    ELSE parsedCurrentUrl.hostname
      protocol == IF parsedRedirectUri.protocol # ""
                    THEN parsedRedirectUri.protocol
                    ELSE parsedCurrentUrl.protocol
  IN  << protocol, hostname, parsedRedirectUri.path >>

\* extractRedirectUrl: '' when the response has no location header
extractRedirectUrl(response) ==
  IF response.location # << >>
    THEN getRedirectUrl(response.url, response.location)
    ELSE << >>

\* hasRedirect(urlPattern); urlPattern << >> stands for no pattern given
hasRedirect(redirectUrls, urlPattern) ==
  IF urlPattern = << >>
    THEN Len(redirectUrls) > 0
    ELSE \E i \in DOMAIN redirectUrls : match(redirectUrls[i], urlPattern)

\* the statuses page.on('response') takes for a redirect
isRedirectStatus(status) == status \in { 302, 301 }

\* a continuity check that forgets the last entry of the chain
continues_trackedOnly(redirectUrl, url, trackedUrl, redirectUrls) ==
  /\ redirectUrl # << >>
  /\ url = trackedUrl

\* the condition under which page.on('response') pushes the redirect url
continues(redirectUrl, url, trackedUrl, redirectUrls) ==
  /\ redirectUrl # << >>
  /\ \/ url = trackedUrl
     \/ /\ redirectUrls # << >>
        /\ url = redirectUrls[Len(redirectUrls)]

\* the redirect chain after page.on('response')
responseRedirectUrls(redirectUrls, trackedUrl, response) ==
  IF isRedirectStatus(response.status)
    THEN LET redirectUrl == extractRedirectUrl(response)
         IN  IF continues(redirectUrl, response.url, trackedUrl, redirectUrls)
               THEN Append(redirectUrls, redirectUrl)
               ELSE redirectUrls
    ELSE redirectUrls

\* indicators matched against the location header as sent, not merged
responseIndicators_rawLocation(errors, indicators, response) ==
  IF isRedirectStatus(response.status)
    THEN LET candidates == getProxyIndicators(indicators, "redirect")
             matched == find(candidates,
                             { it \in { candidates[k] : k \in DOMAIN candidates } :
                                 match(response.location, it.url) })
         IN  IF matched # << >>
               THEN addProxyError(errors, createProxyError(matched[1]))
               ELSE errors
    ELSE errors

\* the error log after page.on('response'); an indicator without url, or
\* with an empty one, gives String.match the empty pattern
responseIndicators(errors, indicators, response) ==
  IF isRedirectStatus(response.status)
    THEN LET redirectUrl == extractRedirectUrl(response)
             candidates == getProxyIndicators(indicators, "redirect")
             matched == find(candidates,
                             { it \in { candidates[k] : k \in DOMAIN candidates } :
                                 match(redirectUrl, it.url) })
         IN  IF matched # << >>
               THEN addProxyError(errors, createProxyError(matched[1]))
               ELSE errors
    ELSE errors

\* the responses the driver reports: the url of the request, the status and
\* the location header
DriverResponses ==
  { [url |-> u, status |-> st, location |-> l] :
      u \in PageUrls, st \in ResponseStatuses, l \in Locations }

\* page.on('response')
response(resp) ==
  /\ Listening
  /\ events < MaxEvents
  /\ _redirectUrls' = responseRedirectUrls(_redirectUrls, _url, resp)
  /\ _proxyErrors' = responseIndicators(_proxyErrors, _proxyIndicators, resp)
  /\ events' = events + 1
  /\ lastOp' = [NoOp EXCEPT !.op = "response", !.url = resp.url,
                            !.status = resp.status,
                            !.location = resp.location]
  /\ UNCHANGED << sessionVars, _url, _proxyIndicators, proxyVars,
                  _navigationActions,
                  _requestingActions, waiters, nextId, navCut >>

IndicatorRedirectB == [type |-> "redirect", level |-> "low", code |-> 0,
                       url |-> << "b.com" >>]
IndicatorRedirectY == [type |-> "redirect", level |-> "high", code |-> 0,
                       url |-> << "/y" >>]
IndicatorRedirectAny == [type |-> "redirect", level |-> "", code |-> 0,
                         url |-> << >>]
Indicator503Low == [type |-> "responseCode", level |-> "low", code |-> 503,
                    url |-> << >>]

\* the proxyIndicators option
IndicatorConfigs ==
  { << >>,
    << Indicator503 >>,
    << Indicator200, Indicator503, Indicator503Low >>,
    << IndicatorRedirectB, IndicatorCaptcha >>,
    << IndicatorRedirectY, IndicatorRedirectB, Indicator503 >>,
    << IndicatorRedirectB, IndicatorRedirectAny >> }

InitEvents ==
  /\ _url = PageUrl
  /\ _redirectUrls = << >>
  /\ _proxy = Null
  /\ _proxyCurrent = Null
  /\ _proxyErrors = << >>
  /\ _proxyIndicators \in IndicatorConfigs
  /\ proxyRotator = FALSE
  /\ _navigationActions = << >>
  /\ _requestingActions = << >>
  /\ waiters = [w \in WaiterIds |-> NoWaiter]
  /\ nextId = 1
  /\ events = 0
  /\ navCut = 1
  /\ rotations = 0
  /\ refills = 0
  /\ configured = Null
  /\ Prepared
  /\ lastOp = NoOp

NextEvents ==
  \/ \E resp \in DriverResponses : response(resp)
  \/ \E url \in PageUrls, resp \in Responses : requestfailed(url, resp)

SpecEvents == InitEvents /\ [][NextEvents]_vars

(***************************************************************************)
(* The session: prepare(), suspended at each of its awaits, and            *)
(* tearDown().  Callers serialize the two.  The driver calls resolve,      *)
(* except page.goto, which resolves or rejects.                            *)
(***************************************************************************)
NavigationError == [msg |-> "Navigation failed", proxyIndicator |-> "",
                    proxyLevel |-> ""]
TypeError == [msg |-> "TypeError", proxyIndicator |-> "", proxyLevel |-> ""]

\* the responses the driver reports in the session
SessionResponses ==
  { [url |-> PageUrl, status |-> 302,
     location |-> << "https:", "b.com", "/z" >>],
    [url |-> PageUrl, status |-> 200, location |-> << >>] }

\* the `proxy` option in the session
SessionProxyOptions ==
  { Null,
    Candidate([host |-> "1.1.1.1", port |-> 80]),
    List(<< [host |-> "1.1.1.1", port |-> 80],
            [host |-> "2.2.2.2", port |-> 81] >>) }

\* prepare() is called: super.prepare() and the debug line, no field written
prepare ==
  /\ pc = "idle"
  /\ cycles < MaxCycles
  /\ pc' = "_rotateProxy"
  /\ steps' = << >>
  /\ outcome' = [state |-> "pending", err |-> NoError]
  /\ cycles' = cycles + 1
  /\ lastOp' = [NoOp EXCEPT !.op = "prepare"]
  /\ UNCHANGED << _browser, _page, closes, _url, _redirectUrls, _proxyErrors,
                  _proxyIndicators, proxyVars, waiterVars >>

\* _createInstance: const proxy = await this._rotateProxy()
createInstanceRotate ==
  /\ pc = "_rotateProxy"
  /\ \E foundProxy \in foundProxies(listAfterRemoval(_proxy, _proxyCurrent),
                                    _proxyCurrent, proxyRotator) :
       LET r == _rotateProxy(_proxy, _proxyCurrent, _proxyErrors, foundProxy)
       IN  /\ _proxy' = r.proxy
           /\ _proxyCurrent' = r.current
           /\ _proxyErrors' = r.errors
           /\ pc' = IF r.threw THEN "idle" ELSE "launch"
           /\ outcome' = IF r.threw
                           THEN [state |-> "rejected", err |-> TypeError]
                           ELSE outcome
           /\ lastOp' = [NoOp EXCEPT !.op = "_rotateProxy", !.ret = r.ret,
                                     !.threw = r.threw]
  /\ steps' = Append(steps, "_rotateProxy")
  /\ rotations' = rotations + 1
  /\ UNCHANGED << _browser, _page, closes, cycles, _url, _redirectUrls,
                  _proxyIndicators, proxyRotator, refills, configured,
                  waiterVars >>

\* _createInstance: this._browser = await puppeteer.launch(...)
createInstanceLaunch ==
  /\ pc = "launch"
  /\ _browser' = Browser(TRUE)
  /\ pc' = "newPage"
  /\ steps' = Append(steps, "launch")
  /\ lastOp' = [NoOp EXCEPT !.op = "launch"]
  /\ UNCHANGED << _page, outcome, closes, cycles, _url, _redirectUrls,
                  _proxyErrors, _proxyIndicators, proxyVars, waiterVars >>

\* _createPage: this._page = await this._browser.newPage(), authenticate
_createPage ==
  /\ pc = "newPage"
  /\ _page' = Page(FALSE, FALSE)
  /\ pc' = "setViewport"
  /\ steps' = Append(steps, "newPage")
  /\ lastOp' = [NoOp EXCEPT !.op = "newPage"]
  /\ UNCHANGED << _browser, outcome, closes, cycles, _url, _redirectUrls,
                  _proxyErrors, _proxyIndicators, proxyVars, waiterVars >>

\* the step of prepare() that follows a page setting
afterSetting(step) ==
  CASE step = "setViewport" -> "setUserAgent"
    [] step = "setUserAgent" -> "setDefaultNavigationTimeout"
    [] step = "setDefaultNavigationTimeout" -> "_handlePuppeteerEvents"

\* _setViewport, _setUserAgent, _setTimeout
pageSetting(step) ==
  /\ pc = step
  /\ pc' = afterSetting(step)
  /\ steps' = Append(steps, step)
  /\ lastOp' = [NoOp EXCEPT !.op = step]
  /\ UNCHANGED << _browser, _page, outcome, closes, cycles, _url,
                  _redirectUrls, _proxyErrors, _proxyIndicators, proxyVars,
                  waiterVars >>

\* _handlePuppeteerEvents: the page.on(...) subscriptions
_handlePuppeteerEvents ==
  /\ pc = "_handlePuppeteerEvents"
  /\ _page' = Page(TRUE, _page.goto)
  /\ pc' = "goto"
  /\ steps' = Append(steps, "_handlePuppeteerEvents")
  /\ lastOp' = [NoOp EXCEPT !.op = "_handlePuppeteerEvents"]
  /\ UNCHANGED << _browser, outcome, closes, cycles, _url, _redirectUrls,
                  _proxyErrors, _proxyIndicators, proxyVars, waiterVars >>

\* _navigateTo: this._page.goto(url) is issued
_navigateTo ==
  /\ pc = "goto"
  /\ _page' = Page(_page.on, TRUE)
  /\ pc' = "navigating"
  /\ steps' = Append(steps, "goto")
  /\ lastOp' = [NoOp EXCEPT !.op = "goto"]
  /\ UNCHANGED << _browser, outcome, closes, cycles, _url, _redirectUrls,
                  _proxyErrors, _proxyIndicators, proxyVars, waiterVars >>

\* the promise of page.goto settles
gotoSettles(resolved) ==
  /\ pc = "navigating"
  /\ pc' = IF resolved THEN "_validateProxy" ELSE "idle"
  /\ steps' = IF resolved THEN Append(steps, "loaded") ELSE steps
  /\ outcome' = IF resolved THEN outcome
                ELSE [state |-> "rejected", err |-> NavigationError]
  /\ lastOp' = [NoOp EXCEPT !.op = "gotoSettles", !.threw = ~resolved]
  /\ UNCHANGED << _browser, _page, closes, cycles, _url, _redirectUrls,
                  _proxyErrors, _proxyIndicators, proxyVars, waiterVars >>

\* a prepare() that goes on to inject the files after a failed validation
afterValidate_continue(rejected) == "_injectFiles"

\* await this._validateProxy(): a rejection leaves prepare()
afterValidate(rejected) == IF rejected THEN "idle" ELSE "_injectFiles"

\* prepare: await this._validateProxy()
prepareValidate ==
  /\ pc = "_validateProxy"
  /\ LET r == _validateProxy(_proxyErrors)
     IN  /\ _proxyErrors' = r.errors
         /\ pc' = afterValidate(r.rejected)
         /\ outcome' = IF r.rejected
                         THEN [state |-> "rejected", err |-> r.err]
                         ELSE outcome
         /\ lastOp' = [NoOp EXCEPT !.op = "_validateProxy",
                                   !.threw = r.rejected, !.err = r.err]
  /\ steps' = Append(steps, "_validateProxy")
  /\ UNCHANGED << _browser, _page, closes, cycles, _url, _redirectUrls,
                  _proxyIndicators, proxyVars, waiterVars >>

\* prepare: await this._injectFiles(this._getVendors()), then it resolves
_injectFiles ==
  /\ pc = "_injectFiles"
  /\ pc' = "idle"
  /\ steps' = Append(steps, "_injectFiles")
  /\ outcome' = IF outcome.state = "pending"
                  THEN [state |-> "resolved", err |-> NoError]
                  ELSE outcome
  /\ lastOp' = [NoOp EXCEPT !.op = "_injectFiles"]
  /\ UNCHANGED << _browser, _page, closes, cycles, _url, _redirectUrls,
                  _proxyErrors, _proxyIndicators, proxyVars, waiterVars >>

\* a tearDown that closes the browser and keeps the field
tearDownFields_keepBrowser(browser, page, closed) ==
  IF browser.t # "browser" \/ ~browser.process
    THEN [browser |-> browser, page |-> page, closes |-> closed]
    ELSE [browser |-> browser,
          page |-> IF page.t = "page" THEN Undefined ELSE page,
          closes |-> [page |-> IF page.t = "page" THEN closed.page + 1
                               ELSE closed.page,
                      browser |-> closed.browser + 1]]

\* tearDown: the fields and the close() calls made after the call
tearDownFields(browser, page, closed) ==
  IF browser.t # "browser" \/ ~browser.process
    THEN [browser |-> browser, page |-> page, closes |-> closed]
    ELSE [browser |-> Undefined,
          page |-> IF page.t = "page" THEN Undefined ELSE page,
          closes |-> [page |-> IF page.t = "page" THEN closed.page + 1
                               ELSE closed.page,
                      browser |-> closed.browser + 1]]

\* tearDown()
tearDown ==
  /\ pc = "idle"
  /\ LET r == tearDownFields(_browser, _page, closes)
     IN  /\ _browser' = r.browser
         /\ _page' = r.page
         /\ closes' = r.closes
  /\ lastOp' = [NoOp EXCEPT !.op = "tearDown",
                            !.again = (lastOp.op = "tearDown")]
  /\ UNCHANGED << pc, steps, outcome, cycles, _url, _redirectUrls,
                  _proxyErrors, _proxyIndicators, proxyVars, waiterVars >>

\* the browser process exits: browser.process() is falsy from then on
browserExit ==
  /\ _browser.t = "browser"
  /\ _browser.process
  /\ _browser' = Browser(FALSE)
  /\ lastOp' = [NoOp EXCEPT !.op = "browserExit"]
  /\ UNCHANGED << _page, pc, steps, outcome, closes, cycles, _url,
                  _redirectUrls, _proxyErrors, _proxyIndicators, proxyVars,
                  waiterVars >>

InitSession ==
  /\ _url = PageUrl
  /\ _redirectUrls = << >>
  /\ configured \in SessionProxyOptions
  /\ _proxy = configured
  /\ _proxyCurrent = Null
  /\ _proxyErrors = << >>
  /\ _proxyIndicators = << IndicatorRedirectB >>
  /\ proxyRotator \in BOOLEAN
  /\ _navigationActions = << >>
  /\ _requestingActions = << >>
  /\ waiters = [w \in WaiterIds |-> NoWaiter]
  /\ nextId = 1
  /\ events = 0
  /\ navCut = 1
  /\ rotations = 0
  /\ refills = 0
  /\ Constructed
  /\ lastOp = NoOp

NextSession ==
  \/ prepare
  \/ createInstanceRotate
  \/ createInstanceLaunch
  \/ _createPage
  \/ \E step \in { "setViewport", "setUserAgent",
                   "setDefaultNavigationTimeout" } : pageSetting(step)
  \/ _handlePuppeteerEvents
  \/ _navigateTo
  \/ \E resolved \in BOOLEAN : gotoSettles(resolved)
  \/ prepareValidate
  \/ _injectFiles
  \/ tearDown
  \/ browserExit
  \/ \E resp \in SessionResponses : response(resp)

SpecSession == InitSession /\ [][NextSession]_vars

(***************************************************************************)
(* Properties of the waiter registry.                                      *)
(***************************************************************************)
InSeq(s, x) == \E i \in DOMAIN s : s[i] = x

RemoveAt(s, i) == SubSeq(s, 1, i - 1) \o SubSeq(s, i + 1, Len(s))

AllPending(actions) ==
  \A i \in DOMAIN actions : waiters[actions[i]].state = "pending"

Settled(w) == waiters[w].state \in { "resolved", "rejected" }

\* a navigation waiter that is still pending but no longer in the queue
Abandoned(w) ==
  /\ waiters[w].kind = "nav"
  /\ waiters[w].state = "pending"
  /\ ~InSeq(_navigationActions, w)

\* C1: on every request event, with all queued request waiters pending,
\* exactly the first waiter (in registration order) whose pattern matches the
\* url is removed from _requestingActions and resolved with the url; every
\* other waiter stays in the collection and is left as it was.
C1_OnlyFirstMatchingWaiterSettles ==
  [][ (lastOp'.op = "request" /\ AllPending(_requestingActions)) =>
        LET url == lastOp'.url
            hits == { i \in DOMAIN _requestingActions :
                        match(url, waiters[_requestingActions[i]].pattern) }
        IN  IF hits = {}
              THEN /\ _requestingActions' = _requestingActions
                   /\ waiters' = waiters
              ELSE LET first == CHOOSE i \in hits : \A j \in hits : i <= j
                       w == _requestingActions[first]
                   IN  /\ _requestingActions' = RemoveAt(_requestingActions, first)
                       /\ waiters'[w].state = "resolved"
                       /\ waiters'[w].result = url
                       /\ \A v \in WaiterIds \ {w} : waiters'[v] = waiters[v]
    ]_vars

\* C2: when the timer of a pending request waiter expires, only that waiter
\* is removed from _requestingActions and rejected with the timeout error;
\* every sibling stays in the collection, untouched.
C2_RequestTimeoutRemovesOnlyItsWaiter ==
  [][ lastOp'.op = "requestTimeout" =>
        LET w == lastOp'.w
        IN  /\ _requestingActions' = without(_requestingActions, w)
            /\ waiters'[w].state = "rejected"
            /\ waiters'[w].error = TimeoutQuery
            /\ \A v \in WaiterIds \ {w} : waiters'[v] = waiters[v]
    ]_vars

\* C3 as stated: a navigation waiter abandoned by a sibling's timeout is
\* never settled afterwards, whatever event or timer expiry follows.
C3_AbandonedWaiterNeverSettles ==
  [][ \A w \in WaiterIds : Abandoned(w) => waiters'[w].state = "pending" ]_vars

\* C3 amended: when the timer of a navigation waiter expires, that waiter is
\* rejected and every other queued navigation waiter leaves the queue still
\* pending; such an abandoned waiter is never settled by a driver event, and
\* the only settlement it ever gets is the rejection with the timeout error
\* by its own timer.
C3_AbandonedWaiterSettlesOnlyByOwnTimer ==
  [][ /\ lastOp'.op = "navigationTimeout" =>
           /\ waiters'[lastOp'.w].state = "rejected"
           /\ \A v \in WaiterIds \ { lastOp'.w } :
                InSeq(_navigationActions, v) => Abandoned(v)'
      /\ \A w \in WaiterIds :
           Abandoned(w) =>
             \/ /\ waiters'[w] = waiters[w]
                /\ Abandoned(w)'
             \/ /\ lastOp'.op = "navigationTimeout"
                /\ lastOp'.w = w
                /\ waiters'[w].state = "rejected"
                /\ waiters'[w].error = TimeoutPage
    ]_vars

\* a timer has just expired and left another navigation waiter abandoned
C3_Witness ==
  /\ lastOp.op = "navigationTimeout"
  /\ \E w \in WaiterIds \ { lastOp.w } : Abandoned(w)

\* C4: when the timer of a queued navigation waiter expires, the waiter is
\* rejected with the timeout error and _navigationActions becomes empty; a
\* later load event invokes no callback registered before that timeout.
C4_NavigationTimeoutClearsQueue ==
  [][ /\ (lastOp'.op = "navigationTimeout"
            /\ InSeq(_navigationActions, lastOp'.w)) =>
           /\ waiters'[lastOp'.w].state = "rejected"
           /\ waiters'[lastOp'.w].error = TimeoutPage
           /\ _navigationActions' = << >>
      /\ lastOp'.op = "load" =>
           \A i \in DOMAIN lastOp'.called : lastOp'.called[i] >= navCut
    ]_vars

\* a load event after a timeout: a waiter registered before the timeout is
\* still pending, its callback was not invoked
C4_Witness ==
  /\ lastOp.op = "load"
  /\ \E w \in WaiterIds : Abandoned(w) /\ w < navCut
  /\ \E v \in WaiterIds : waiters[v].error = TimeoutPage

\* C5: on a load event every queued navigation waiter is resolved, in
\* registration order, and the queue is empty afterwards; no other waiter
\* is touched.
C5_LoadResolvesWholeQueue ==
  [][ lastOp'.op = "load" =>
        /\ lastOp'.called = _navigationActions
        /\ \A i, j \in DOMAIN _navigationActions :
             i < j => _navigationActions[i] < _navigationActions[j]
        /\ \A i \in DOMAIN _navigationActions :
             /\ waiters[_navigationActions[i]].state = "pending"
             /\ waiters'[_navigationActions[i]].state = "resolved"
        /\ _navigationActions' = << >>
        /\ \A w \in WaiterIds :
             ~InSeq(_navigationActions, w) => waiters'[w] = waiters[w]
    ]_vars

\* a load event has resolved two queued navigation waiters
C5_Witness ==
  /\ lastOp.op = "load"
  /\ Len(lastOp.called) >= 2
  /\ \A i \in DOMAIN lastOp.called : waiters[lastOp.called[i]].state = "resolved"

\* C6: a requestfailed event for the tracked url rejects every queued
\* navigation waiter with the navigation-failure error and empties the queue;
\* a requestfailed event for another url changes neither queue nor waiters.
C6_RequestFailedRejectsWholeQueue ==
  [][ lastOp'.op = "requestfailed" =>
        IF lastOp'.url = _url
          THEN /\ lastOp'.called = _navigationActions
               /\ \A i \in DOMAIN _navigationActions :
                    /\ waiters'[_navigationActions[i]].state = "rejected"
                    /\ waiters'[_navigationActions[i]].error = NotLoaded
               /\ _navigationActions' = << >>
          ELSE /\ _navigationActions' = _navigationActions
               /\ waiters' = waiters
    ]_vars

\* a requestfailed event for the tracked url has rejected a queued waiter
C6_Witness ==
  /\ lastOp.op = "requestfailed"
  /\ lastOp.url = _url
  /\ \E i \in DOMAIN lastOp.called :
       waiters[lastOp.called[i]].error = NotLoaded

\* C7: for every waiter at most one of its two settlement paths (its timer,
\* its callback) ever runs, a settled waiter is one for which exactly one of
\* them ran, and the outcome is the one of the path that ran.
C7_ExactlyOneSettlementPath ==
  \A w \in WaiterIds :
    /\ ~(waiters[w].timerRuns > 0 /\ waiters[w].calls > 0)
    /\ waiters[w].timerRuns <= 1
    /\ Settled(w) <=> (waiters[w].timerRuns > 0 \/ waiters[w].calls > 0)
    /\ waiters[w].timerRuns > 0 =>
         /\ waiters[w].state = "rejected"
         /\ waiters[w].error \in { TimeoutPage, TimeoutQuery }
    /\ waiters[w].calls > 0 =>
         /\ waiters[w].timer = "cleared"
         /\ waiters[w].error \notin { TimeoutPage, TimeoutQuery }

\* one waiter was settled by its callback and another one by its timer
C7_Witness ==
  \E v, w \in WaiterIds :
    /\ waiters[v].calls > 0 /\ waiters[v].timer = "cleared"
    /\ waiters[w].timerRuns = 1 /\ waiters[w].state = "rejected"

(***************************************************************************)
(* Properties of the proxy pool.                                           *)
(***************************************************************************)
Max(a, b) == IF a >= b THEN a ELSE b

\* C8: with a list of N candidates configured and none active at first,
\* after k rotations without refill exactly max(N - k, 0) candidates remain
\* in the list, with and without a proxyRotator.
C8_PoolShrinksByOnePerRotation ==
  (configured.t = "array" /\ refills = 0) =>
     /\ _proxy.t = "array"
     /\ Len(_proxy.v) = Max(Len(configured.v) - rotations, 0)

\* C9: a rotation that starts on an empty candidate list does not throw,
\* signals "none" (undefined) and leaves the list empty, with and without a
\* proxyRotator, however often it is repeated.
C9_ExhaustedPoolSignalsNone ==
  [][ (lastOp'.op = "_rotateProxy" /\ _proxy = List(<< >>)) =>
        /\ ~lastOp'.threw
        /\ lastOp'.ret = Undefined
        /\ _proxy' = List(<< >>)
    ]_vars

\* a list of one candidate was used up by a proxyRotator and rotated again
C9_Witness ==
  /\ lastOp.op = "_rotateProxy"
  /\ configured.t = "array" /\ Len(configured.v) = 1
  /\ proxyRotator /\ refills = 0 /\ rotations >= 3
  /\ _proxy = List(<< >>)
  /\ lastOp.ret = Undefined

\* C10: with a single candidate configured, every rotation returns that
\* candidate, records it as active and leaves the configured value as it was.
C10_SingleProxyIsFixed ==
  [][ (lastOp'.op = "_rotateProxy" /\ _proxy.t = "proxy") =>
        /\ ~lastOp'.threw
        /\ lastOp'.ret = _proxy
        /\ _proxyCurrent' = _proxy
        /\ _proxy' = _proxy
    ]_vars

\* the single configured candidate was returned by a second rotation
C10_Witness ==
  /\ lastOp.op = "_rotateProxy"
  /\ configured.t = "proxy" /\ refills = 0 /\ rotations >= 2
  /\ lastOp.ret = configured
  /\ _proxyCurrent = configured /\ _proxy = configured

\* C11: validate() resolves when the error log is empty and rejects with the
\* error appended last when the log holds one or more errors.
C11_ValidateRejectsWithLastError ==
  [][ lastOp'.op = "_validateProxy" =>
        IF _proxyErrors = << >>
          THEN /\ ~lastOp'.threw
               /\ lastOp'.err = NoError
          ELSE /\ lastOp'.threw
               /\ lastOp'.err = _proxyErrors[Len(_proxyErrors)]
    ]_vars

\* validate() has rejected with the later of two different recorded errors
C11_Witness ==
  /\ lastOp.op = "_validateProxy"
  /\ lastOp.threw
  /\ Len(_proxyErrors) = 1
  /\ lastOp.err # NoError
  /\ lastOp.err # _proxyErrors[1]

\* C14: whenever a rotation makes a candidate active, in the list and in the
\* single-proxy configuration alike, the error log is empty right after it.
C14_LogEmptyAfterActivation ==
  (lastOp.op = "_rotateProxy" /\ ~lastOp.threw /\ lastOp.ret.t = "proxy") =>
     _proxyErrors = << >>

(***************************************************************************)
(* Properties of the indicator matcher and the redirect chain.             *)
(***************************************************************************)
\* the errors of the indicators of a list, in the order of the list
RECURSIVE ErrorsOf(_)
ErrorsOf(indicators) ==
  IF indicators = << >> THEN << >>
  ELSE << createProxyError(Head(indicators)) >> \o ErrorsOf(Tail(indicators))

\* the configured indicators of a type, in order
OfType(type) == SelectSeq(_proxyIndicators, LAMBDA it : it.type = type)

\* the first element of a list, as a list
First(s) == IF s = << >> THEN << >> ELSE << Head(s) >>

\* C12: a requestfailed event whose request has a response with status s
\* appends one error (type responseCode, the indicator's level) for every
\* configured responseCode indicator whose code equals s, and none when no
\* code equals s.
C12_ResponseCodeIndicatorsYieldErrors ==
  [][ \A url \in PageUrls, resp \in Responses :
        (requestfailed(url, resp) /\ resp.present) =>
           _proxyErrors' = _proxyErrors \o
              ErrorsOf(SelectSeq(OfType("responseCode"),
                                 LAMBDA it : it.code = resp.status))
    ]_vars

\* C13 as stated: a 301/302 response with a location appends one error for
\* every configured redirect indicator whose url pattern matches the merged
\* target.
C13_EveryMatchingRedirectIndicatorYieldsError ==
  [][ (lastOp'.op = "response" /\ isRedirectStatus(lastOp'.status)
         /\ lastOp'.location # << >>) =>
        LET target == getRedirectUrl(lastOp'.url, lastOp'.location)
        IN  _proxyErrors' = _proxyErrors \o
              ErrorsOf(SelectSeq(OfType("redirect"),
                                 LAMBDA it : match(target, it.url)))
    ]_vars

\* C13 amended: a 301/302 response with a location appends exactly one
\* error, that of the first configured redirect indicator whose url pattern
\* matches the merged target, and none when no pattern matches; whether the
\* target was appended to the redirect chain plays no part.
C13_FirstMatchingRedirectIndicatorYieldsError ==
  [][ (lastOp'.op = "response" /\ isRedirectStatus(lastOp'.status)
         /\ lastOp'.location # << >>) =>
        LET target == getRedirectUrl(lastOp'.url, lastOp'.location)
        IN  _proxyErrors' = _proxyErrors \o
              ErrorsOf(First(SelectSeq(OfType("redirect"),
                                       LAMBDA it : match(target, it.url))))
    ]_vars

\* a redirect from an unrelated url was not appended to the chain and still
\* produced the error of a matching indicator
C13_Witness ==
  /\ lastOp.op = "response"
  /\ isRedirectStatus(lastOp.status)
  /\ lastOp.location # << >>
  /\ lastOp.url # _url
  /\ _redirectUrls = << >>
  /\ _proxyErrors = << createProxyError(IndicatorRedirectB) >>

\* C16: a 301/302 response without location header changes neither the
\* redirect chain nor the error log, whatever redirect indicators are
\* configured.
C16_NoLocationChangesNothing ==
  [][ (lastOp'.op = "response" /\ isRedirectStatus(lastOp'.status)
         /\ lastOp'.location = << >>) =>
        /\ _redirectUrls' = _redirectUrls
        /\ _proxyErrors' = _proxyErrors
    ]_vars

\* C17: a 301/302 response (one that has a merged target, that is a
\* location) appends the merged target to the chain if and only if the url
\* of its request equals the tracked url or the last entry of the chain; any
\* other response leaves the chain as it is; no driver event removes or
\* reorders entries.
C17_ChainContinuity ==
  [][ /\ lastOp'.op = "response" =>
           IF /\ isRedirectStatus(lastOp'.status)
              /\ lastOp'.location # << >>
              /\ \/ lastOp'.url = _url
                 \/ /\ _redirectUrls # << >>
                    /\ lastOp'.url = _redirectUrls[Len(_redirectUrls)]
             THEN _redirectUrls' =
                    Append(_redirectUrls,
                           getRedirectUrl(lastOp'.url, lastOp'.location))
             ELSE _redirectUrls' = _redirectUrls
      /\ Len(_redirectUrls') >= Len(_redirectUrls)
      /\ SubSeq(_redirectUrls', 1, Len(_redirectUrls)) = _redirectUrls
    ]_vars

\* a second redirect was appended because it came from the last entry of
\* the chain, not from the tracked url
C17_Witness ==
  /\ lastOp.op = "response"
  /\ Len(_redirectUrls) = 2
  /\ lastOp.url = _redirectUrls[1]
  /\ lastOp.url # _url
  /\ hasRedirect(_redirectUrls, << "b.com" >>)

(***************************************************************************)
(* Properties of the session.                                              *)
(***************************************************************************)
\* the session was never launched, is torn down, or its browser has exited
Inactive == _browser.t # "browser" \/ ~_browser.process

\* C15: tearDown() on a session that was never launched, is already torn
\* down, or whose browser process has exited calls close() on nothing,
\* leaves the fields alone and does not fail; on a live session it closes
\* the page and the browser once each, and a tearDown() that directly
\* follows a tearDown() closes nothing.
C15_TearDownIdempotent ==
  [][lastOp'.op = "tearDown" =>
       /\ ~lastOp'.threw
       /\ Inactive => /\ closes' = closes
                      /\ _browser' = _browser
                      /\ _page' = _page
       /\ ~Inactive => /\ closes'.browser = closes.browser + 1
                       /\ closes'.page =
                            closes.page + (IF _page.t = "page" THEN 1 ELSE 0)
                       /\ Inactive'
       /\ lastOp.op = "tearDown" => closes' = closes]_vars

\* C15 witness: a live session with a page was torn down twice in a row,
\* and page and browser were closed once each
C15_Witness ==
  /\ lastOp.op = "tearDown" /\ lastOp.again
  /\ cycles = 1
  /\ closes = [page |-> 1, browser |-> 1]

\* C15 witness: tearDown() was called after the browser process exited
C15_WitnessExited ==
  /\ lastOp.op = "tearDown"
  /\ _browser = Browser(FALSE)
  /\ closes = [page |-> 0, browser |-> 0]

\* C18: when prepare() starts a navigation cycle, the redirect chain and
\* the error log are both empty.
C18_CycleStartsEmpty ==
  [][lastOp'.op = "prepare" =>
       _redirectUrls' = << >> /\ _proxyErrors' = << >>]_vars

\* the step `a` was performed before every performance of the step `b`
Before(a, b) ==
  \A j \in DOMAIN steps :
    steps[j] = b => \E i \in 1..(j - 1) : steps[i] = a

Count(step) == Cardinality({ i \in DOMAIN steps : steps[i] = step })

\* order of the steps of the current prepare()
C19_Order ==
  /\ Before("_rotateProxy", "launch")
  /\ Before("_handlePuppeteerEvents", "goto")
  /\ Before("loaded", "_validateProxy")
  /\ Count("_validateProxy") <= 1
  /\ Count("loaded") = 1 /\ pc \in { "_injectFiles", "idle" } =>
       Count("_validateProxy") = 1
  /\ Count("_injectFiles") = 1 =>
       /\ Count("_validateProxy") = 1
       /\ outcome.state # "rejected"

\* a validation that rejects makes prepare() reject with the error popped
\* from the log, and the files are not injected
C19_ValidateStep ==
  lastOp'.op = "_validateProxy" /\ _proxyErrors # << >> =>
    /\ lastOp'.threw
    /\ outcome' = [state |-> "rejected",
                   err |-> _proxyErrors[Len(_proxyErrors)]]
    /\ pc' = "idle"
    /\ Count("_injectFiles")' = 0

\* C19: in prepare() the proxy is rotated before the browser is launched,
\* the handlers are subscribed before the navigation is issued, validate
\* runs only after the navigation completed, and then exactly once; when it
\* rejects, prepare() rejects with that error and the files are not
\* injected.
C19_PrepareOrdering == []C19_Order /\ [][C19_ValidateStep]_vars

\* C19 witness: a prepare() was rejected by the validation, after the
\* navigation completed, with the error of the redirect indicator
C19_Witness ==
  /\ pc = "idle"
  /\ outcome.state = "rejected"
  /\ outcome.err.proxyIndicator = "redirect"
  /\ steps[Len(steps)] = "_validateProxy"

(***************************************************************************)
(* Termination of the waiters.                                             *)
(***************************************************************************)
\* C20: if every timer that is not cancelled eventually fires, every
\* registered waiter, of a navigation or of a request, is eventually
\* resolved or rejected.
C20_EveryWaiterSettles ==
  \A w \in WaiterIds : (waiters[w].state = "pending") ~> Settled(w)

\* C20 witness: every waiter was registered, of both kinds, and all are
\* settled, one at least by its timer and one by an event handler
C20_Witness ==
  /\ nextId = MaxWaiters + 1
  /\ \A w \in WaiterIds : Settled(w)
  /\ \E w \in WaiterIds : waiters[w].kind = "nav"
  /\ \E w \in WaiterIds : waiters[w].kind = "req"
  /\ \E w \in WaiterIds : waiters[w].timer = "fired"
  /\ \E w \in WaiterIds : waiters[w].timer = "cleared"

(***************************************************************************)
(* One-shot request waiters, and the effect of a validation on the log.    *)
(***************************************************************************)
\* C21: the request collection holds no waiter whose fn has been invoked,
\* and the fn of no request waiter is invoked more than once.
C21_RequestWaitersOneShot ==
  /\ \A i \in DOMAIN _requestingActions :
       waiters[_requestingActions[i]].calls = 0
  /\ \A w \in WaiterIds : waiters[w].kind = "req" => waiters[w].calls <= 1

\* C22: a validate() on a log of n >= 1 errors rejects with the last error,
\* removes that error and keeps the first n - 1 in their order; on an empty
\* log it resolves and leaves the log empty; it writes no other field.
C22_ValidateConsumesOneError ==
  [][ lastOp'.op = "_validateProxy" =>
        LET n == Len(_proxyErrors)
        IN  /\ IF n = 0
                 THEN ~lastOp'.threw /\ _proxyErrors' = << >>
                 ELSE /\ lastOp'.threw
                      /\ lastOp'.err = _proxyErrors[n]
                      /\ Len(_proxyErrors') = n - 1
                      /\ \A i \in 1..(n - 1) :
                           _proxyErrors'[i] = _proxyErrors[i]
            /\ UNCHANGED << _proxy, _proxyCurrent, _proxyIndicators,
                            _redirectUrls >>
    ]_vars

\* C22 witness: a log of MaxErrors different errors was drained by as many
\* validate() calls in a row, the last of which rejected with the error
\* recorded first
C22_Witness ==
  /\ lastOp.op = "_validateProxy"
  /\ lastOp.threw
  /\ lastOp.again
  /\ _proxyErrors = << >>
  /\ lastOp.err = createProxyError(Indicator503)

====
